---- MODULE Spec2Model ----
(***************************************************************************)
(* Model of the configuration-example renderer of datadog_checks_dev:      *)
(* OptionWriter, construct_yaml, value_type_string, write_option and       *)
(* ExampleConsumer.render (tooling/configuration/consumers/example.py),    *)
(* and of the leader detection of the Vault check (vault/vault.py).        *)
(* Spec is the renderer with no Vault check constructed; VaultSpec is the  *)
(* Vault check with no ExampleConsumer constructed.                        *)
(*                                                                         *)
(* Text is modelled as TLA+ strings (Len, \o and SubSeq act on them), so   *)
(* the rendered document is the character string the code builds.          *)
(* Python dicts are records: "k in d" is  k \in DOMAIN d.                  *)
(* An example value carries its runtime type in the field kind.            *)
(***************************************************************************)
EXTENDS Integers, Sequences, FiniteSets, TLC

(***************************************************************************)
(* Python built-ins used by the renderer.                                  *)
(***************************************************************************)

\* s[:-2]
DropLast2(s) == IF Len(s) <= 2 THEN "" ELSE SubSeq(s, 1, Len(s) - 2)

\* str.splitlines() for text whose only line boundary is "\n"
RECURSIVE SplitFrom(_, _)
SplitFrom(s, start) ==
    IF start > Len(s) THEN << >>
    ELSE LET breaks == { i \in start..Len(s) : SubSeq(s, i, i) = "\n" } IN
         IF breaks = {} THEN << SubSeq(s, start, Len(s)) >>
         ELSE LET i == CHOOSE b \in breaks : \A o \in breaks : b <= o
              IN  << SubSeq(s, start, i - 1) >> \o SplitFrom(s, i + 1)

splitlines(s) == SplitFrom(s, 1)

\* str(n) for an int
RECURSIVE NatStr(_)
NatStr(n) ==
    IF n < 10
    THEN SubSeq("0123456789", n + 1, n + 1)
    ELSE NatStr(n \div 10) \o SubSeq("0123456789", (n % 10) + 1, (n % 10) + 1)

IntStr(n) == IF n < 0 THEN "-" \o NatStr(0 - n) ELSE NatStr(n)

\* str.upper() over the lower-case letters option names are written in
UpperChar(c) ==
    IF \E k \in 1..26 : SubSeq("abcdefghijklmnopqrstuvwxyz", k, k) = c
    THEN LET k == CHOOSE k \in 1..26 : SubSeq("abcdefghijklmnopqrstuvwxyz", k, k) = c
         IN  SubSeq("ABCDEFGHIJKLMNOPQRSTUVWXYZ", k, k)
    ELSE c

RECURSIVE upper(_)
upper(s) == IF s = "" THEN "" ELSE UpperChar(Head(s)) \o upper(Tail(s))

(***************************************************************************)
(* Example values.  kind is the Python runtime type of the example:        *)
(*   NoneType, bool, int, float, str, dict, list.                          *)
(* A float is written whole.frac (one decimal digit); a dict is empty; a   *)
(* list holds ints.                                                        *)
(***************************************************************************)
None == [kind |-> "NoneType"]

\* dict.get(key) / dict.get(key, default)
Get(d, key, default) == IF key \in DOMAIN d THEN d[key] ELSE default

\* str(example) for an int or a float
str(example) ==
    IF example.kind = "int" THEN IntStr(example.v)
    ELSE IntStr(example.whole) \o "." \o NatStr(example.frac)

\* the text of a scalar as yaml.safe_dump writes it (plain style)
YamlScalar(example) ==
    CASE example.kind = "NoneType" -> "null"
      [] example.kind = "bool"     -> IF example.v THEN "true" ELSE "false"
      [] example.kind = "int"      -> IntStr(example.v)
      [] example.kind = "float"    -> str(example)
      [] example.kind = "str"      -> example.v

RECURSIVE YamlItems(_, _)
YamlItems(items, pad) ==
    IF items = << >> THEN ""
    ELSE pad \o "- " \o IntStr(Head(items)) \o "\n" \o YamlItems(Tail(items), pad)

\* block-style dump of the value of one mapping entry, after "name:";
\* pad is the indentation of the entry
YamlValue(example, pad) ==
    CASE example.kind = "dict" -> " {}\n"
      [] example.kind = "list" ->
            IF example.v = << >> THEN " []\n"
            ELSE "\n" \o YamlItems(example.v, pad)
      [] OTHER -> " " \o YamlScalar(example) \o "\n"

\* construct_yaml({option_name: example})
construct_yaml_mapping(option_name, example) ==
    option_name \o ":" \o YamlValue(example, "")

\* construct_yaml([{option_name: example}])
construct_yaml_list(option_name, example) ==
    "- " \o option_name \o ":" \o YamlValue(example, "  ")

\* default_option_example(option_name), of ..utils
default_option_example(option_name) == "<" \o upper(option_name) \o ">"

DESCRIPTION_LINE_LENGTH_LIMIT == 120

\* value_type_string(value)
value_type_string(value) ==
    LET value_type == value.type IN
    IF value_type = "object" THEN "mapping"
    ELSE IF value_type = "array"
         THEN LET item_type == value.items.type IN
              IF item_type = "object" THEN "list of mappings"
              ELSE IF item_type = "array" THEN "list of lists"
              ELSE "list of " \o item_type \o "s"
         ELSE value_type

\* KNOWN_SECTION_DESCRIPTIONS of constants.py
KNOWN_SECTION_DESCRIPTIONS ==
    [init_config |-> "All options defined here will be available to all instances.\n",
     instances   |-> "Every instance will be scheduled independent of the others.\n",
     logs        |-> "Log Section\n\ntype - required - Type of log input source (tcp / udp / file / windows_event)\nport / path / channel_path - required - Set port if type is tcp or udp.\n                                        Set path if type is file.\n                                        Set channel_path if type is windows_event.\nservice - required - Name of the service that generated the log\nsource  - required - Attribute that defines which Integration sent the logs\nsourcecategory - optional - Multiple value attribute. Used to refine the source attribute\ntags - optional - Add tags to the collected logs\n\nDiscover Datadog log collection: https://docs.datadoghq.com/logs/log_collection/\n"]

(***************************************************************************)
(* The schemas the renderer is run on.                                     *)
(*   ValueOption   : name, required, value (type, items, example),         *)
(*                   description                                           *)
(*   SectionOption : name, description, and optionally multiple, options,  *)
(*                   example                                               *)
(*   File          : example_name, options                                 *)
(***************************************************************************)

\* files of a spec, option lists of a file or of a section
MaxFiles == 3
MaxOptions == 2

\* a line of n characters
RECURSIVE X(_)
X(n) ==
    IF n = 0 THEN ""
    ELSE IF n % 2 = 1 THEN "x" \o X(n - 1)
    ELSE LET half == X(n \div 2) IN half \o half

\* sequences over S of length lo..hi
SeqsOf(S, lo, hi) == UNION { [1..n -> S] : n \in lo..hi }

DistinctNames(options) ==
    \A i, j \in DOMAIN options : i # j => options[i].name # options[j].name

ExInt(n)   == [kind |-> "int", v |-> n]
ExBool(b)  == [kind |-> "bool", v |-> b]
ExStr(s)   == [kind |-> "str", v |-> s]
ExFloat    == [kind |-> "float", whole |-> 1, frac |-> 5]
ExDict     == [kind |-> "dict"]
ExList(l)  == [kind |-> "list", v |-> l]

\* value specs with an example
ValueSpecs(name) ==
    { [type |-> "integer", example |-> ExInt(8125)],
      [type |-> "boolean", example |-> ExBool(TRUE)],
      [type |-> "boolean", example |-> ExBool(FALSE)],
      [type |-> "string", example |-> ExStr(default_option_example(name))],
      [type |-> "string", example |-> ExStr("abc")],
      [type |-> "number", example |-> ExFloat],
      [type |-> "object", example |-> ExDict],
      [type |-> "array", items |-> [type |-> "integer"], example |-> ExList(<< 1, 2 >>)],
      [type |-> "array", items |-> [type |-> "object"], example |-> ExList(<< >>)] }

\* value specs without an example (an optional option only)
BareValueSpecs ==
    { [type |-> "string"], [type |-> "array", items |-> [type |-> "array"]] }

ValueOption(name, required, value, description) ==
    [name |-> name, required |-> required, value |-> value, description |-> description]

\* descriptions of a top-level option: the rendered line is 3 characters longer
TopDescriptions ==
    { "xx", X(117), X(118), X(120), X(121), X(123), "xx\n\nyy\n",
      X(118) \o "\n" \o X(120) }

\* descriptions of an option one level down: the rendered line is 7 longer
ChildDescriptions == { "xx", X(113), X(114) }

TopValueOptions ==
    { ValueOption("foo", r, v, d) :
        r \in BOOLEAN, v \in ValueSpecs("foo"), d \in TopDescriptions }
    \cup { ValueOption("foo", FALSE, v, d) : v \in BareValueSpecs, d \in TopDescriptions }

ChildValueOptions ==
    { ValueOption("port", TRUE, [type |-> "integer", example |-> ExInt(8125)], d) :
        d \in ChildDescriptions }
    \cup { ValueOption("timeout", FALSE, [type |-> "integer", example |-> ExInt(10)], d) :
        d \in ChildDescriptions }
    \cup { ValueOption("url", FALSE, [type |-> "string", example |-> ExStr("<URL>")], d) :
        d \in ChildDescriptions }
    \cup { ValueOption("ports", TRUE,
                       [type |-> "array", items |-> [type |-> "integer"],
                        example |-> ExList(<< 1, 2 >>)], d) :
        d \in ChildDescriptions }

ChildLists == { o \in SeqsOf(ChildValueOptions, 0, MaxOptions) : DistinctNames(o) }

SectionDescriptions == { KNOWN_SECTION_DESCRIPTIONS.instances, "xx", X(118) }

\* sections of value options; multiple may be missing
FlatSections ==
    { [name |-> "instances", description |-> d, multiple |-> m, options |-> o] :
        d \in SectionDescriptions, m \in BOOLEAN, o \in ChildLists }
    \cup { [name |-> "init_config", description |-> d, options |-> o] :
        d \in SectionDescriptions, o \in ChildLists }

\* sections that document everything in the description
DescribedSections ==
    { [name |-> "logs", description |-> KNOWN_SECTION_DESCRIPTIONS.logs],
      [name |-> "logs", description |-> KNOWN_SECTION_DESCRIPTIONS.logs, multiple |-> TRUE],
      [name |-> "logs", description |-> X(118), multiple |-> FALSE],
      [name |-> "logs", description |-> "xx", multiple |-> TRUE,
       example |-> ExList(<< 1, 2 >>)] }

\* what a section two levels deep is built from
InnerNodes ==
    { [name |-> "logs", description |-> "xx", multiple |-> TRUE],
      [name |-> "inner", description |-> X(109), multiple |-> TRUE,
       options |-> << ValueOption("port", TRUE,
                                  [type |-> "integer", example |-> ExInt(8125)], X(110)) >>],
      [name |-> "inner", description |-> X(114), multiple |-> FALSE,
       options |-> << ValueOption("timeout", FALSE,
                                  [type |-> "integer", example |-> ExInt(10)], X(109)) >>],
      [name |-> "empty", description |-> "xx", multiple |-> TRUE, options |-> << >>],
      ValueOption("port", TRUE, [type |-> "integer", example |-> ExInt(8125)], "xx"),
      ValueOption("timeout", FALSE, [type |-> "integer", example |-> ExInt(10)], "xx") }

NestedSections ==
    { [name |-> "instances", description |-> "xx", multiple |-> m, options |-> o] :
        m \in BOOLEAN,
        o \in { l \in SeqsOf(InnerNodes, 1, MaxOptions) : DistinctNames(l) } }

\* a few whole nodes, for files of several options and specs of several files
PlainNodes ==
    { ValueOption("foo", TRUE, [type |-> "integer", example |-> ExInt(8125)], "xx"),
      ValueOption("bar", FALSE, [type |-> "string", example |-> ExStr("abc")], X(118)),
      [name |-> "instances", description |-> X(120), multiple |-> TRUE,
       options |-> << ValueOption("port", TRUE,
                                  [type |-> "integer", example |-> ExInt(8125)], X(114)) >>] }

File(example_name, options) == [example_name |-> example_name, options |-> options]

\* one file, one top-level node
SingleNodeSpecs ==
    { [files |-> << File("conf.yaml.example", << n >>) >>] :
        n \in TopValueOptions \cup FlatSections \cup DescribedSections \cup NestedSections }

\* one file, several top-level nodes (or none)
SingleFileSpecs ==
    { [files |-> << File("conf.yaml.example", o) >>] :
        o \in { l \in SeqsOf(PlainNodes, 0, MaxOptions) : Len(l) # 1 /\ DistinctNames(l) } }

PlainFiles ==
    { File(n, o) : n \in { "a.yaml", "b.yaml" },
                   o \in { << p >> : p \in PlainNodes } }

\* several files, example names possibly repeated
ManyFileSpecs == { [files |-> f] : f \in SeqsOf(PlainFiles, 2, MaxFiles) }

\* two consumers, each rendering files of its own
PairedSpecs ==
    { [files |-> << f >>] : f \in PlainFiles } \cup { [files |-> << >>] }

(***************************************************************************)
(* State.  Each ExampleConsumer that was constructed renders its spec in   *)
(* one call of render(); the variables below are the locals of that call,  *)
(* and stack is the chain of write_option calls in progress.               *)
(***************************************************************************)
VARIABLES
    spec,     \* spec[c]: ExampleConsumer.spec
    pc,       \* pc[c]: where render() is
    files,    \* files[c]: the OrderedDict render() builds, as a list of entries
    fi,       \* fi[c]: position in self.spec['files'] (from 1)
    oi,       \* oi[c]: i of enumerate(options, 1)
    writer,   \* writer[c]: the OptionWriter of the file being rendered
    stack,    \* stack[c]: frames of write_option, innermost last
    exc       \* exc[c]: the exception raised out of render(), or "none"

(***************************************************************************)
(* State of the Vault check (vault/datadog_checks/vault/vault.py).  Each   *)
(* Vault instance that was constructed runs check() again and again; the   *)
(* variables below are its attributes, the locals of the check_leader_v1   *)
(* call in progress, and what the instance has submitted so far.           *)
(***************************************************************************)
VARIABLES
    instance,          \* instance[v]: the instance configuration of check v
    _detect_leader,    \* _detect_leader[v]: self._detect_leader
    _previous_leader,  \* _previous_leader[v]: self._previous_leader
    leader_pc,         \* leader_pc[v]: where the run of check_leader_v1 is
    runs,              \* runs[v]: how many runs of check() have started
    tags,              \* tags[v]: the tags list check() hands down
    leader_data,       \* leader_data[v]: what access_api returned to the run
    raised,            \* raised[v]: the exception the last run raised, or "none"
    events,            \* events[v]: every event submitted with self.event
    gauges,            \* gauges[v]: every sample submitted with self.gauge
    service_checks,    \* service_checks[v]: every self.service_check status
    log                \* log[v]: every self.log.error message

example_vars == << spec, pc, files, fi, oi, writer, stack, exc >>

vault_vars ==
    << instance, _detect_leader, _previous_leader, leader_pc, runs, tags,
       leader_data, raised, events, gauges, service_checks, log >>

vars == << example_vars, vault_vars >>

Consumers == { "c1", "c2" }

(***************************************************************************)
(* OptionWriter                                                            *)
(***************************************************************************)

\* OptionWriter.__init__: a new StringIO and a new errors list
OptionWriter == [text |-> "", errors |-> << >>, closed |-> FALSE]

\* the name writer before the first with statement binds it: no store is open
Unbound == [text |-> "", errors |-> << >>, closed |-> TRUE]

\* The outcome of a run of statements: the writer they leave and the exception
\* they raised, if any; a statement after a raise is not executed.
Ok(w) == [w |-> w, exc |-> "none"]

\* OptionWriter.write(s): StringIO.write raises ValueError on a closed store
write(r, s) ==
    IF r.exc # "none" THEN r
    ELSE IF r.w.closed THEN [r EXCEPT !.exc = "ValueError"]
    ELSE [r EXCEPT !.w.text = @ \o s]

\* OptionWriter.new_error(s)
new_error(r, s) ==
    IF r.exc # "none" THEN r ELSE [r EXCEPT !.w.errors = Append(@, s)]

\* d[key] of a dict: KeyError when the key is missing
Subscript(r, d, key) ==
    IF r.exc = "none" /\ key \notin DOMAIN d THEN [r EXCEPT !.exc = "KeyError"] ELSE r

\* Close that leaves the store open
CloseForgotten(w) == w

\* OptionWriter.__exit__: self.writer.close()
Close(w) == [w EXCEPT !.closed = TRUE]

(***************************************************************************)
(* write_option, statement by statement                                    *)
(***************************************************************************)

\* a call write_option(option, writer, indent, start_list): the frame starts
\* at the branch "if 'value' in option" selects
Frame(option, indent, start_list) ==
    [option |-> option, indent |-> indent, start_list |-> start_list,
     at |-> IF "value" \in DOMAIN option THEN "header" ELSE "description",
     i |-> 1, option_yaml |-> ""]

\* DefaultSuffix that does not compare a string with the name-derived default
DefaultSuffixAlways(r, option_name, example) ==
    IF example.kind = "bool"
    THEN write(r, " - default: " \o (IF example.v THEN "true" ELSE "false"))
    ELSE IF example.kind \in { "int", "float" }
    THEN write(r, " - default: " \o str(example))
    ELSE IF example.kind = "str"
    THEN write(r, " - default: " \o example.v)
    ELSE r

\* the default suffix of the header of an optional option
DefaultSuffix(r, option_name, example) ==
    IF example.kind = "bool"
    THEN write(r, " - default: " \o (IF example.v THEN "true" ELSE "false"))
    ELSE IF example.kind \in { "int", "float" }
    THEN write(r, " - default: " \o str(example))
    ELSE IF example.kind = "str"
    THEN IF example.v # default_option_example(option_name)
         THEN write(r, " - default: " \o example.v)
         ELSE r
    ELSE r

\* the header line of a value option
Header(r, option, indent) ==
    LET value == option.value
        required == option.required
        r1 == write(r, indent \o "## " \o option.name \o " - " \o value_type_string(value)
                       \o " - " \o (IF required THEN "required" ELSE "optional"))
        example == Get(value, "example", None)
        r2 == IF ~required THEN DefaultSuffix(r1, option.name, example) ELSE r1
    IN  write(r2, "\n")

\* The grave accent that encloses the name in a diagnostic; a TLA+ string
\* cannot hold that character, so the apostrophe stands for it.
Grave == "'"

\* the diagnostic of a description line that is over the limit
LengthError(kind, option_name, extra_characters) ==
    "Description line length of " \o kind \o " " \o Grave \o option_name
        \o Grave \o " was over the limit by " \o IntStr(extra_characters) \o " character"
        \o (IF extra_characters > 1 THEN "s" ELSE "")

\* DescriptionLine with the limit itself taken as over the limit
DescriptionLineAtLimit(r, indent, kind, option_name, text) ==
    IF text # ""
    THEN LET line == indent \o "## " \o text
             checked ==
                 IF Len(line) >= DESCRIPTION_LINE_LENGTH_LIMIT
                 THEN new_error(r, LengthError(kind, option_name,
                                               Len(line) - DESCRIPTION_LINE_LENGTH_LIMIT))
                 ELSE r
         IN  write(write(checked, line), "\n")
    ELSE write(write(r, indent \o "##"), "\n")

\* DescriptionLine that cuts a line that is over the limit down to the limit
DescriptionLineTruncated(r, indent, kind, option_name, text) ==
    IF text # ""
    THEN LET line == indent \o "## " \o text IN
         IF Len(line) > DESCRIPTION_LINE_LENGTH_LIMIT
         THEN write(write(new_error(r, LengthError(kind, option_name,
                                Len(line) - DESCRIPTION_LINE_LENGTH_LIMIT)),
                          SubSeq(line, 1, DESCRIPTION_LINE_LENGTH_LIMIT)), "\n")
         ELSE write(write(r, line), "\n")
    ELSE write(write(r, indent \o "##"), "\n")

\* one turn of the loop over the lines of the description, where kind is
\* "option" in the value branch and "section" in the section branch
DescriptionLine(r, indent, kind, option_name, text) ==
    IF text # ""
    THEN LET line == indent \o "## " \o text
             checked ==
                 IF Len(line) > DESCRIPTION_LINE_LENGTH_LIMIT
                 THEN new_error(r, LengthError(kind, option_name,
                                               Len(line) - DESCRIPTION_LINE_LENGTH_LIMIT))
                 ELSE r
         IN  write(write(checked, line), "\n")
    ELSE write(write(r, indent \o "##"), "\n")

\* the serialized example of a value option
OptionYaml(option_name, example, start_list) ==
    IF start_list
    THEN construct_yaml_list(option_name, example)
    ELSE construct_yaml_mapping(option_name, example)

\* ExampleIndent that takes a whole step of four off
ExampleIndentWholeStep(indent, start_list) ==
    IF start_list THEN DropLast2(DropLast2(indent)) ELSE indent

\* the indent of the serialized example
ExampleIndent(indent, start_list) == IF start_list THEN DropLast2(indent) ELSE indent

\* ExampleLine that comments out the example of a required option too
ExampleLineCommented(r, indent, required, line) ==
    write(write(write(r, indent), "# "), line \o "\n")

\* one turn of the loop over the lines of option_yaml of a value option
ExampleLine(r, indent, required, line) ==
    LET r1 == write(r, indent)
        r2 == IF ~required THEN write(r1, "# ") ELSE r1
    IN  write(r2, line \o "\n")

\* the example of a section without options
SectionExample(option) ==
    Get(option, "example",
        IF Get(option, "multiple", FALSE) THEN ExList(<< >>) ELSE ExDict)

\* the indent of the children of a section
NextIndent(indent) == indent \o "    "

\* ListMarker that writes nothing
ListMarkerMissing(r, next_indent) == r

\* the standalone list marker before an optional first child
ListMarker(r, next_indent) == write(r, DropLast2(next_indent) \o "-\n")

\* the placeholder of a multiple section with no options
EmptyList(r, next_indent) == write(r, "\n" \o DropLast2(next_indent) \o "- {}\n")

Top(c) == stack[c][Len(stack[c])]

SetTop(c, f) == [stack[c] EXCEPT ![Len(stack[c])] = f]

\* consumer c was constructed and its render() is at the given place
At(c, place) == c \in DOMAIN spec /\ pc[c] = place

InWriteOption(c, at) ==
    /\ At(c, "write_option")
    /\ stack[c] # << >>
    /\ Top(c).at = at

\* The state a step of write_option leaves: outcome r and, unless it raised,
\* call stack st.  An exception leaves every frame and the body of the
\* with statement.
Continue(c, r, st) ==
    /\ writer' = [writer EXCEPT ![c] = r.w]
    /\ IF r.exc # "none"
       THEN /\ exc' = [exc EXCEPT ![c] = r.exc]
            /\ stack' = [stack EXCEPT ![c] = << >>]
            /\ pc' = [pc EXCEPT ![c] = "unwind"]
       ELSE /\ stack' = [stack EXCEPT ![c] = st]
            /\ UNCHANGED << exc, pc >>
    /\ UNCHANGED << spec, files, fi, oi >>
    /\ UNCHANGED vault_vars

\* value option: the header line
WriteHeader(c) ==
    /\ InWriteOption(c, "header")
    /\ LET f == Top(c) IN
       Continue(c, Header(Ok(writer[c]), f.option, f.indent),
                SetTop(c, [f EXCEPT !.at = "description", !.i = 1]))

\* value option: one line of the description
ValueDescription(c) ==
    /\ InWriteOption(c, "description")
    /\ "value" \in DOMAIN Top(c).option
    /\ LET f == Top(c)
           lines == splitlines(f.option.description)
       IN  /\ f.i <= Len(lines)
           /\ Continue(c, DescriptionLine(Ok(writer[c]), f.indent, "option",
                                          f.option.name, lines[f.i]),
                       SetTop(c, [f EXCEPT !.i = @ + 1]))

\* value option: the separator, then the example is serialized
ValueSeparator(c) ==
    /\ InWriteOption(c, "description")
    /\ "value" \in DOMAIN Top(c).option
    /\ LET f == Top(c)
           example == Get(f.option.value, "example", None)
       IN  /\ f.i > Len(splitlines(f.option.description))
           /\ Continue(c, write(Ok(writer[c]), f.indent \o "#\n"),
                       SetTop(c, [f EXCEPT
                           !.at = "example", !.i = 1,
                           !.option_yaml = OptionYaml(f.option.name, example, f.start_list),
                           !.indent = ExampleIndent(f.indent, f.start_list)]))

\* value option: one line of the example
ValueExample(c) ==
    /\ InWriteOption(c, "example")
    /\ LET f == Top(c)
           lines == splitlines(f.option_yaml)
       IN  /\ f.i <= Len(lines)
           /\ Continue(c, ExampleLine(Ok(writer[c]), f.indent, f.option.required,
                                      lines[f.i]),
                       SetTop(c, [f EXCEPT !.i = @ + 1]))

\* section: one line of the description
SectionDescription(c) ==
    /\ InWriteOption(c, "description")
    /\ "value" \notin DOMAIN Top(c).option
    /\ LET f == Top(c)
           lines == splitlines(f.option.description)
       IN  /\ f.i <= Len(lines)
           /\ Continue(c, DescriptionLine(Ok(writer[c]), f.indent, "section",
                                          f.option.name, lines[f.i]),
                       SetTop(c, [f EXCEPT !.i = @ + 1]))

\* section: the separator
SectionSeparator(c) ==
    /\ InWriteOption(c, "description")
    /\ "value" \notin DOMAIN Top(c).option
    /\ LET f == Top(c) IN
       /\ f.i > Len(splitlines(f.option.description))
       /\ Continue(c, write(Ok(writer[c]), f.indent \o "#\n"),
                   SetTop(c, [f EXCEPT !.at = "branch"]))

\* section with options: the name line, and the placeholder of an empty
\* multiple section
SectionOptions(c) ==
    /\ InWriteOption(c, "branch")
    /\ "options" \in DOMAIN Top(c).option
    /\ LET f == Top(c)
           option == f.option
           r1 == Subscript(Ok(writer[c]), option, "multiple")
           options == option.options
           next_indent == NextIndent(f.indent)
           r2 == write(r1, f.indent \o option.name \o ":" \o "\n")
       IN  IF r1.exc # "none"
           THEN Continue(c, r1, << >>)
           ELSE IF options # << >>
           THEN Continue(c, r2, SetTop(c, [f EXCEPT !.at = "children", !.i = 1]))
           ELSE IF option.multiple
           THEN Continue(c, EmptyList(r2, next_indent), SetTop(c, [f EXCEPT !.at = "return"]))
           ELSE Continue(c, r2, SetTop(c, [f EXCEPT !.at = "return"]))

\* section with options: the next child is entered
SectionChild(c) ==
    /\ InWriteOption(c, "children")
    /\ LET f == Top(c)
           option == f.option
           options == option.options
           next_indent == NextIndent(f.indent)
       IN  /\ f.i <= Len(options)
           /\ LET opt == options[f.i]
                  r1 == write(Ok(writer[c]), "\n")
              IN  IF f.i = 1 /\ option.multiple
                  THEN LET r2 == Subscript(r1, opt, "required") IN
                       IF r2.exc # "none"
                       THEN Continue(c, r2, << >>)
                       ELSE IF opt.required
                       THEN Continue(c, r2, Append(stack[c], Frame(opt, next_indent, TRUE)))
                       ELSE Continue(c, ListMarker(r2, next_indent),
                                     Append(stack[c], Frame(opt, next_indent, FALSE)))
                  ELSE Continue(c, r1, Append(stack[c], Frame(opt, next_indent, FALSE)))

\* section without options: the example is serialized
SectionNoOptions(c) ==
    /\ InWriteOption(c, "branch")
    /\ "options" \notin DOMAIN Top(c).option
    /\ LET f == Top(c) IN
       Continue(c, Ok(writer[c]),
                SetTop(c, [f EXCEPT
                    !.at = "section_example", !.i = 1,
                    !.option_yaml =
                        construct_yaml_mapping(f.option.name, SectionExample(f.option))]))

\* section without options: one line of the example, always commented out
SectionExampleLine(c) ==
    /\ InWriteOption(c, "section_example")
    /\ LET f == Top(c)
           lines == splitlines(f.option_yaml)
       IN  /\ f.i <= Len(lines)
           /\ Continue(c, write(Ok(writer[c]), f.indent \o "# " \o lines[f.i] \o "\n"),
                       SetTop(c, [f EXCEPT !.i = @ + 1]))

\* the frame has run to the end of write_option
Finished(f) ==
    \/ f.at = "return"
    \/ f.at \in { "example", "section_example" } /\ f.i > Len(splitlines(f.option_yaml))
    \/ f.at = "children" /\ f.i > Len(f.option.options)

\* write_option returns: to the loop over the children of the calling
\* section, or to render()
Return(c) ==
    /\ At(c, "write_option")
    /\ stack[c] # << >>
    /\ Finished(Top(c))
    /\ LET rest == SubSeq(stack[c], 1, Len(stack[c]) - 1) IN
       IF rest = << >>
       THEN /\ stack' = [stack EXCEPT ![c] = << >>]
            /\ pc' = [pc EXCEPT ![c] = "after_option"]
       ELSE /\ stack' = [stack EXCEPT
                  ![c] = [rest EXCEPT ![Len(rest)].i = @ + 1]]
            /\ UNCHANGED pc
    /\ UNCHANGED << spec, files, fi, oi, writer, exc >>
    /\ UNCHANGED vault_vars

(***************************************************************************)
(* ExampleConsumer.render                                                  *)
(***************************************************************************)

\* SetItem that keeps the value a known key already has
SetItemKeepFirst(d, key, value) ==
    IF \E k \in DOMAIN d : d[k].key = key
    THEN d
    ELSE Append(d, [key |-> key, value |-> value])

\* files[key] = value on an OrderedDict: a new key goes last, a known key
\* keeps its place
SetItem(d, key, value) ==
    IF \E k \in DOMAIN d : d[k].key = key
    THEN [k \in DOMAIN d |-> IF d[k].key = key THEN [key |-> key, value |-> value] ELSE d[k]]
    ELSE Append(d, [key |-> key, value |-> value])

\* render() is called: files = OrderedDict()
Render(c) ==
    /\ At(c, "start")
    /\ pc' = [pc EXCEPT ![c] = "for_file"]
    /\ files' = [files EXCEPT ![c] = << >>]
    /\ fi' = [fi EXCEPT ![c] = 1]
    /\ UNCHANGED << spec, oi, writer, stack, exc >>
    /\ UNCHANGED vault_vars

\* NewWriter that opens the writer of the previous file again
NewWriterReused(c) == [writer[c] EXCEPT !.closed = FALSE]

\* "with OptionWriter() as writer": every file gets a writer of its own
NewWriter(c) == OptionWriter

\* the next file: the with statement makes its OptionWriter
EnterFile(c) ==
    /\ At(c, "for_file")
    /\ fi[c] <= Len(spec[c].files)
    /\ writer' = [writer EXCEPT ![c] = NewWriter(c)]
    /\ oi' = [oi EXCEPT ![c] = 1]
    /\ pc' = [pc EXCEPT ![c] = "for_option"]
    /\ UNCHANGED << spec, files, fi, stack, exc >>
    /\ UNCHANGED vault_vars

\* the next top-level option of the file: write_option(option, writer)
CallWriteOption(c) ==
    /\ At(c, "for_option")
    /\ LET options == spec[c].files[fi[c]].options IN
       /\ oi[c] <= Len(options)
       /\ stack' = [stack EXCEPT ![c] = << Frame(options[oi[c]], "", FALSE) >>]
    /\ pc' = [pc EXCEPT ![c] = "write_option"]
    /\ UNCHANGED << spec, files, fi, oi, writer, exc >>
    /\ UNCHANGED vault_vars

\* after write_option: a blank line unless the option was the last
AfterOption(c) ==
    /\ At(c, "after_option")
    /\ LET num_options == Len(spec[c].files[fi[c]].options)
           r == IF oi[c] # num_options THEN write(Ok(writer[c]), "\n") ELSE Ok(writer[c])
       IN  /\ writer' = [writer EXCEPT ![c] = r.w]
           /\ exc' = [exc EXCEPT ![c] = r.exc]
           /\ pc' = [pc EXCEPT ![c] = IF r.exc # "none" THEN "unwind" ELSE "for_option"]
    /\ oi' = [oi EXCEPT ![c] = @ + 1]
    /\ UNCHANGED << spec, files, fi, stack >>
    /\ UNCHANGED vault_vars

\* the options are done: files[file['example_name']] = (writer.contents,
\* writer.errors), inside the with statement; StringIO.getvalue raises
\* ValueError on a closed store
StoreResult(c) ==
    /\ At(c, "for_option")
    /\ oi[c] > Len(spec[c].files[fi[c]].options)
    /\ IF writer[c].closed
       THEN /\ exc' = [exc EXCEPT ![c] = "ValueError"]
            /\ pc' = [pc EXCEPT ![c] = "unwind"]
            /\ UNCHANGED files
       ELSE /\ files' = [files EXCEPT ![c] =
                  SetItem(@, spec[c].files[fi[c]].example_name,
                          [content |-> writer[c].text, errors |-> writer[c].errors])]
            /\ pc' = [pc EXCEPT ![c] = "exit"]
            /\ UNCHANGED exc
    /\ UNCHANGED << spec, fi, oi, writer, stack >>
    /\ UNCHANGED vault_vars

\* the with statement ends normally: __exit__ closes the store
ExitFile(c) ==
    /\ At(c, "exit")
    /\ writer' = [writer EXCEPT ![c] = Close(@)]
    /\ fi' = [fi EXCEPT ![c] = @ + 1]
    /\ pc' = [pc EXCEPT ![c] = "for_file"]
    /\ UNCHANGED << spec, files, oi, stack, exc >>
    /\ UNCHANGED vault_vars

\* the with statement ends by an exception: __exit__ closes the store and
\* the exception leaves render()
ExitRaising(c) ==
    /\ At(c, "unwind")
    /\ writer' = [writer EXCEPT ![c] = Close(@)]
    /\ pc' = [pc EXCEPT ![c] = "raised"]
    /\ UNCHANGED << spec, files, fi, oi, stack, exc >>
    /\ UNCHANGED vault_vars

\* no file is left: return files
ReturnFiles(c) ==
    /\ At(c, "for_file")
    /\ fi[c] > Len(spec[c].files)
    /\ pc' = [pc EXCEPT ![c] = "returned"]
    /\ UNCHANGED << spec, files, fi, oi, writer, stack, exc >>
    /\ UNCHANGED vault_vars

(***************************************************************************)
(* The Vault check: Vault.__init__, Vault.check, Vault.access_api and      *)
(* Vault.check_leader_v1 (vault/datadog_checks/vault/vault.py).            *)
(*                                                                         *)
(* A JSON value carries its Python type in the field kind, as an example   *)
(* value does; a JSON object is a function from its keys, so that          *)
(* d.get(key) is Get(d, key, None).  An event is recorded without its      *)
(* timestamp and host, a service check without its message.                *)
(***************************************************************************)

\* bool(value), the truth value "if value:" tests
Truthy(value) ==
    CASE value.kind = "NoneType" -> FALSE
      [] value.kind = "bool" -> value.v
      [] value.kind = "int" -> value.v # 0
      [] value.kind = "str" -> value.v # ""
      [] value.kind = "list" -> value.v # << >>

\* str.lower() over the letters configuration values are written in
LowerChar(c) ==
    IF \E k \in 1..26 : SubSeq("ABCDEFGHIJKLMNOPQRSTUVWXYZ", k, k) = c
    THEN LET k == CHOOSE k \in 1..26 : SubSeq("ABCDEFGHIJKLMNOPQRSTUVWXYZ", k, k) = c
         IN  SubSeq("abcdefghijklmnopqrstuvwxyz", k, k)
    ELSE c

RECURSIVE lower(_)
lower(s) == IF s = "" THEN "" ELSE LowerChar(Head(s)) \o lower(Tail(s))

\* datadog_checks.base.is_affirmative
is_affirmative(value) ==
    CASE value.kind = "NoneType" -> FALSE
      [] value.kind \in { "bool", "int" } -> Truthy(value)
      [] value.kind = "str" -> lower(value.v) \in { "yes", "true", "1", "y", "on" }

\* sep.join(strings)
RECURSIVE Join(_, _)
Join(sep, strings) ==
    IF strings = << >> THEN ""
    ELSE IF Len(strings) = 1 THEN strings[1]
    ELSE strings[1] \o sep \o Join(sep, Tail(strings))

EVENT_LEADER_CHANGE == "vault.leader_change"

SERVICE_CHECK_CONNECT == "vault.can_connect"

CHECK_NAME == "vault"

\* status codes of /sys/leader that are not a failure
SYS_LEADER_DEFAULT_CODES == { 503 }

(***************************************************************************)
(* Inputs of the Vault check: instance configurations, and what the        *)
(* /sys/leader endpoint can answer to one request.                         *)
(***************************************************************************)

\* how many times check() runs
MaxRuns == 3

Checks == { "vault" }

\* a key that is missing, or present with one of the values
Field(key, values) == { << >> } \cup { key :> v : v \in values }

Instances ==
    { [api_url |-> "http://vault:8200/v1", tags |-> << "env:test" >>] @@ d :
        d \in Field("detect_leader",
                    { ExBool(TRUE), ExBool(FALSE), ExStr("True"), ExStr("no") }) }

LeaderAddresses == { "https://a:8200", "https://b:8200" }

\* the JSON objects GET /sys/leader answers
LeaderJson ==
    { e @@ s @@ a :
        e \in Field("errors", { ExList(<< >>), ExList(<< "Vault is sealed", "standby" >>) }),
        s \in Field("is_self", { ExBool(TRUE), ExBool(FALSE) }),
        a \in Field("leader_address", { None, ExStr("") } \cup { ExStr(l) : l \in LeaderAddresses }) }

\* what self.http.get(url) does: it raises, or it returns a response whose
\* json() raises JSONDecodeError or returns an object
Responses ==
    { [raises |-> e] : e \in { "Timeout", "ConnectionError" } }
    \cup { [status_code |-> s, json |-> j] :
             s \in { 200, 503, 500 }, j \in { [raises |-> "JSONDecodeError"] } \cup LeaderJson }

(***************************************************************************)
(* Vault                                                                   *)
(***************************************************************************)

\* v is a constructed check and its run is at the given place
Running(v, place) == v \in DOMAIN instance /\ leader_pc[v] = place

\* self.service_check(name, status, tags=tags)
ServiceCheck(name, status, check_tags) ==
    [name |-> name, status |-> status, tags |-> check_tags]

\* the event check_leader_v1 submits
LeaderChangeEvent(previous, current, event_tags) ==
    [event_type |-> EVENT_LEADER_CHANGE,
     msg_title |-> "Leader change",
     msg_text |-> "Leader changed from " \o Grave \o previous \o Grave
                  \o " to " \o Grave \o current \o Grave \o ".",
     alert_type |-> "info",
     source_type_name |-> CHECK_NAME,
     tags |-> event_tags]

\* mutant of LeaderChanged: any leader seen after the first counts as a change
LeaderChangedToAnything(previous, current) == previous # None

\* self._previous_leader is not None and current_leader != self._previous_leader
LeaderChanged(previous, current) ==
    /\ previous # None
    /\ current # previous

\* check(): tags = list(self._tags), then self._api.check_leader(tags)
check(v) ==
    /\ Running(v, "idle")
    /\ runs[v] < MaxRuns
    /\ runs' = [runs EXCEPT ![v] = @ + 1]
    /\ tags' = [tags EXCEPT ![v] = Get(instance[v], "tags", << >>)]
    /\ raised' = [raised EXCEPT ![v] = "none"]
    /\ leader_pc' = [leader_pc EXCEPT ![v] = "access_api"]
    /\ UNCHANGED << instance, _detect_leader, _previous_leader, leader_data,
                    events, gauges, service_checks, log >>
    /\ UNCHANGED example_vars

\* access_api raising ApiUnreachable out of check_leader_v1 and check()
Unreachable(v) ==
    /\ service_checks' = [service_checks EXCEPT ![v] =
                            Append(@, ServiceCheck(SERVICE_CHECK_CONNECT, "CRITICAL", tags[v]))]
    /\ raised' = [raised EXCEPT ![v] = "ApiUnreachable"]
    /\ tags' = [tags EXCEPT ![v] = << >>]
    /\ leader_pc' = [leader_pc EXCEPT ![v] = "idle"]
    /\ UNCHANGED leader_data

\* leader_data = self.access_api(url, tags, ignore_status_codes=...)
access_api(v) ==
    /\ Running(v, "access_api")
    /\ \E response \in Responses :
        IF "raises" \in DOMAIN response
        THEN Unreachable(v)
        ELSE IF response.status_code >= 400
                /\ response.status_code \notin SYS_LEADER_DEFAULT_CODES
        THEN Unreachable(v)
        ELSE IF "raises" \in DOMAIN response.json
        THEN Unreachable(v)
        ELSE /\ leader_data' = [leader_data EXCEPT ![v] = response.json]
             /\ leader_pc' = [leader_pc EXCEPT ![v] = "errors"]
             /\ UNCHANGED << service_checks, raised, tags >>
    /\ UNCHANGED << instance, _detect_leader, _previous_leader, runs, events, gauges, log >>
    /\ UNCHANGED example_vars

\* errors = leader_data.get('errors'); if errors: log and return
leader_errors(v) ==
    /\ Running(v, "errors")
    /\ LET errors == Get(leader_data[v], "errors", None)
       IN  IF Truthy(errors)
           THEN /\ log' = [log EXCEPT ![v] =
                             Append(@, "Unable to fetch leader data from vault. Reason: "
                                       \o Join(";", errors.v))]
                /\ leader_data' = [leader_data EXCEPT ![v] = None]
                /\ tags' = [tags EXCEPT ![v] = << >>]
                /\ leader_pc' = [leader_pc EXCEPT ![v] = "idle"]
           ELSE /\ leader_pc' = [leader_pc EXCEPT ![v] = "is_leader"]
                /\ UNCHANGED << log, leader_data, tags >>
    /\ UNCHANGED << instance, _detect_leader, _previous_leader, runs, raised,
                    events, gauges, service_checks >>
    /\ UNCHANGED example_vars

\* the is_leader tag and the vault.is_leader gauge
is_leader_gauge(v) ==
    /\ Running(v, "is_leader")
    /\ LET is_leader == is_affirmative(Get(leader_data[v], "is_self", None))
           tagged == Append(tags[v], "is_leader:" \o (IF is_leader THEN "true" ELSE "false"))
       IN  /\ tags' = [tags EXCEPT ![v] = tagged]
           /\ gauges' = [gauges EXCEPT ![v] =
                           Append(@, [name |-> "vault.is_leader",
                                      value |-> IF is_leader THEN 1 ELSE 0,
                                      tags |-> tagged])]
    /\ leader_pc' = [leader_pc EXCEPT ![v] = "detect"]
    /\ UNCHANGED << instance, _detect_leader, _previous_leader, runs, leader_data,
                    raised, events, service_checks, log >>
    /\ UNCHANGED example_vars

\* the leader detection that ends check_leader_v1
detect_leader(v) ==
    /\ Running(v, "detect")
    /\ LET current_leader == Get(leader_data[v], "leader_address", None)
       IN  IF _detect_leader[v] /\ Truthy(current_leader)
           THEN /\ events' = [events EXCEPT ![v] =
                                IF LeaderChanged(_previous_leader[v], current_leader)
                                THEN Append(@, LeaderChangeEvent(_previous_leader[v].v,
                                                                 current_leader.v, tags[v]))
                                ELSE @]
                /\ _previous_leader' = [_previous_leader EXCEPT ![v] = current_leader]
           ELSE UNCHANGED << events, _previous_leader >>
    /\ leader_data' = [leader_data EXCEPT ![v] = None]
    /\ tags' = [tags EXCEPT ![v] = << >>]
    /\ leader_pc' = [leader_pc EXCEPT ![v] = "idle"]
    /\ UNCHANGED << instance, _detect_leader, runs, raised, gauges, service_checks, log >>
    /\ UNCHANGED example_vars

\* no ExampleConsumer was constructed
NoConsumers ==
    /\ spec = << >>
    /\ pc = << >>
    /\ files = << >>
    /\ fi = << >>
    /\ oi = << >>
    /\ writer = << >>
    /\ stack = << >>
    /\ exc = << >>

\* Vault.__init__ of each check in the given configurations
Constructed(instances) ==
    /\ instance = instances
    /\ _detect_leader =
         [v \in DOMAIN instances |->
            is_affirmative(Get(instances[v], "detect_leader", ExBool(FALSE)))]
    /\ _previous_leader = [v \in DOMAIN instances |-> None]
    /\ leader_pc = [v \in DOMAIN instances |-> "idle"]
    /\ runs = [v \in DOMAIN instances |-> 0]
    /\ tags = [v \in DOMAIN instances |-> << >>]
    /\ leader_data = [v \in DOMAIN instances |-> None]
    /\ raised = [v \in DOMAIN instances |-> "none"]
    /\ events = [v \in DOMAIN instances |-> << >>]
    /\ gauges = [v \in DOMAIN instances |-> << >>]
    /\ service_checks = [v \in DOMAIN instances |-> << >>]
    /\ log = [v \in DOMAIN instances |-> << >>]

VaultInit ==
    /\ NoConsumers
    /\ \E instances \in [Checks -> Instances] : Constructed(instances)

VaultNext ==
    \E v \in Checks :
        \/ check(v)
        \/ access_api(v)
        \/ leader_errors(v)
        \/ is_leader_gauge(v)
        \/ detect_leader(v)

VaultSpec == VaultInit /\ [][VaultNext]_vars

(***************************************************************************)
(* Specification                                                           *)
(***************************************************************************)

\* One consumer with a spec of any shape, or two consumers with specs of at
\* most one file each.
Specs ==
    [{ "c1" } -> SingleNodeSpecs \cup SingleFileSpecs \cup ManyFileSpecs]
    \cup [Consumers -> PairedSpecs]

Init ==
    /\ spec \in Specs
    /\ pc = [c \in DOMAIN spec |-> "start"]
    /\ files = [c \in DOMAIN spec |-> << >>]
    /\ fi = [c \in DOMAIN spec |-> 0]
    /\ oi = [c \in DOMAIN spec |-> 0]
    /\ writer = [c \in DOMAIN spec |-> Unbound]
    /\ stack = [c \in DOMAIN spec |-> << >>]
    /\ exc = [c \in DOMAIN spec |-> "none"]
    /\ Constructed(<< >>)  \* no Vault check

Next ==
    \E c \in Consumers :
        \/ Render(c)
        \/ EnterFile(c)
        \/ CallWriteOption(c)
        \/ WriteHeader(c)
        \/ ValueDescription(c)
        \/ ValueSeparator(c)
        \/ ValueExample(c)
        \/ SectionDescription(c)
        \/ SectionSeparator(c)
        \/ SectionOptions(c)
        \/ SectionChild(c)
        \/ SectionNoOptions(c)
        \/ SectionExampleLine(c)
        \/ Return(c)
        \/ AfterOption(c)
        \/ StoreResult(c)
        \/ ExitFile(c)
        \/ ExitRaising(c)
        \/ ReturnFiles(c)

Spec == Init /\ [][Next]_vars

(***************************************************************************)
(* Properties                                                              *)
(***************************************************************************)

\* the step of consumer c appends exactly s to the text of its writer
Appended(c, s) == writer'[c].text = writer[c].text \o s

EndsWith(s, t) == Len(s) >= Len(t) /\ SubSeq(s, Len(s) - Len(t) + 1, Len(s)) = t

\* a step of consumer c that handles one description line
DescriptionStep(c) ==
    /\ c \in DOMAIN spec
    /\ stack[c] # << >>
    /\ Top(c).at = "description"
    /\ Len(stack'[c]) = Len(stack[c])
    /\ stack'[c][Len(stack[c])].i = Top(c).i + 1

\* the description line that step handles, and the line it writes
DescribedLine(c) == splitlines(Top(c).option.description)[Top(c).i]

RenderedLine(indent, text) == IF text = "" THEN indent \o "##" ELSE indent \o "## " \o text

NodeKind(option) == IF "value" \in DOMAIN option THEN "option" ELSE "section"

Diagnostic(option, excess) ==
    "Description line length of " \o NodeKind(option) \o " " \o Grave \o option.name
        \o Grave \o " was over the limit by " \o excess

\* the length policy, for a description step of c that measures n characters
LengthPolicy(c, n) ==
    LET before == writer[c].errors
        after == writer'[c].errors
    IN  /\ n <= 120 => after = before
        /\ n > 120 => Len(after) = Len(before) + 1 /\ SubSeq(after, 1, Len(before)) = before
        /\ n = 121 => after = Append(before, Diagnostic(Top(c).option, "1 character"))
        /\ n = 123 => after = Append(before, Diagnostic(Top(c).option, "3 characters"))

\* C1 as stated: the length policy applies to the description text itself, at
\* any nesting depth: a description line of 120 characters records no
\* diagnostic, one of 121 characters records one diagnostic of 1 character,
\* one of 123 characters one of 3 characters.
C1_TextLengthPolicy ==
    [][\A c \in Consumers : DescriptionStep(c) => LengthPolicy(c, Len(DescribedLine(c)))]_vars

\* C1 amended: the length policy applies to the line as it is written, the
\* indent and the comment marker "## " included: a written line of at most
\* 120 characters records no diagnostic, one of 121 characters records
\* exactly one diagnostic of 1 character, one of 123 characters exactly one
\* of 3 characters, for options and sections at any nesting depth.
C1_WrittenLengthPolicy ==
    [][\A c \in Consumers :
          DescriptionStep(c) =>
              LengthPolicy(c, Len(RenderedLine(Top(c).indent, DescribedLine(c))))]_vars

\* C1 witness: inside a section, a description line written with 121
\* characters has just recorded the diagnostic of 1 character.
C1_Witness ==
    \E c \in DOMAIN spec :
        /\ stack[c] # << >>
        /\ Top(c).at = "description"
        /\ Top(c).i > 1
        /\ Top(c).indent # ""
        /\ Len(RenderedLine(Top(c).indent,
                            splitlines(Top(c).option.description)[Top(c).i - 1])) = 121
        /\ writer[c].errors # << >>
        /\ writer[c].errors[Len(writer[c].errors)] = Diagnostic(Top(c).option, "1 character")

\* C2: render raises no fatal condition: no call of render() ends by an
\* exception, whatever well-formed schema it is given.
C2_NoFatalCondition == \A c \in DOMAIN spec : pc[c] # "raised" /\ exc[c] = "none"

(***************************************************************************)
(* The document of a file and its diagnostics, written down as functions   *)
(* of the schema alone: the text has every description line in full, the   *)
(* diagnostics are those of the written lines in pre-order.                *)
(***************************************************************************)
RECURSIVE PlainDescription(_, _, _)
PlainDescription(lines, k, indent) ==
    IF k > Len(lines) THEN ""
    ELSE RenderedLine(indent, lines[k]) \o "\n" \o PlainDescription(lines, k + 1, indent)

RECURSIVE PrefixedLines(_, _, _)
PrefixedLines(lines, k, prefix) ==
    IF k > Len(lines) THEN ""
    ELSE prefix \o lines[k] \o "\n" \o PrefixedLines(lines, k + 1, prefix)

RECURSIVE PlainOption(_, _, _), PlainChildren(_, _, _)
PlainOption(option, indent, start_list) ==
    IF "value" \in DOMAIN option
    THEN Header(Ok(OptionWriter), option, indent).w.text
         \o PlainDescription(splitlines(option.description), 1, indent)
         \o indent \o "#\n"
         \o PrefixedLines(
                splitlines(OptionYaml(option.name, Get(option.value, "example", None),
                                      start_list)),
                1,
                ExampleIndent(indent, start_list) \o (IF option.required THEN "" ELSE "# "))
    ELSE PlainDescription(splitlines(option.description), 1, indent)
         \o indent \o "#\n"
         \o IF "options" \in DOMAIN option
            THEN indent \o option.name \o ":\n"
                 \o (IF option.options # << >>
                     THEN PlainChildren(option, 1, indent \o "    ")
                     ELSE IF option.multiple
                     THEN "\n" \o DropLast2(indent \o "    ") \o "- {}\n"
                     ELSE "")
            ELSE PrefixedLines(
                     splitlines(construct_yaml_mapping(option.name, SectionExample(option))),
                     1, indent \o "# ")

PlainChildren(option, k, next_indent) ==
    IF k > Len(option.options) THEN ""
    ELSE LET opt == option.options[k]
             first == k = 1 /\ option.multiple
         IN  "\n"
             \o (IF first /\ ~opt.required THEN DropLast2(next_indent) \o "-\n" ELSE "")
             \o PlainOption(opt, next_indent, first /\ opt.required)
             \o PlainChildren(option, k + 1, next_indent)

RECURSIVE PlainFile(_, _)
PlainFile(options, k) ==
    IF k > Len(options) THEN ""
    ELSE PlainOption(options[k], "", FALSE)
         \o (IF k # Len(options) THEN "\n" ELSE "")
         \o PlainFile(options, k + 1)

RECURSIVE LineDiagnostics(_, _, _, _)
LineDiagnostics(option, lines, k, indent) ==
    IF k > Len(lines) THEN << >>
    ELSE LET excess == Len(indent) + 3 + Len(lines[k]) - 120 IN
         (IF lines[k] # "" /\ excess > 0
          THEN << Diagnostic(option, IntStr(excess) \o " character"
                                         \o (IF excess > 1 THEN "s" ELSE "")) >>
          ELSE << >>)
         \o LineDiagnostics(option, lines, k + 1, indent)

RECURSIVE OptionDiagnostics(_, _), ChildDiagnostics(_, _, _)
OptionDiagnostics(option, indent) ==
    LineDiagnostics(option, splitlines(option.description), 1, indent)
    \o (IF "options" \in DOMAIN option
        THEN ChildDiagnostics(option.options, 1, indent \o "    ")
        ELSE << >>)

ChildDiagnostics(options, k, indent) ==
    IF k > Len(options) THEN << >>
    ELSE OptionDiagnostics(options[k], indent) \o ChildDiagnostics(options, k + 1, indent)

\* the result of rendering a file alone
AloneResult(file) ==
    [content |-> PlainFile(file.options, 1),
     errors |-> ChildDiagnostics(file.options, 1, "")]

\* the file consumer c is rendering, and the entry files[c] holds for a key
CurrentFile(c) == spec[c].files[fi[c]]

Entry(d, key) == d[CHOOSE k \in DOMAIN d : d[k].key = key]

HasKey(d, key) == \E k \in DOMAIN d : d[k].key = key

\* whatever diagnostics were recorded, the content stored for a file is the
\* document with every description line in full
StoredInFull(c) ==
    pc[c] = "exit" =>
        /\ writer[c].text = PlainFile(CurrentFile(c).options, 1)
        /\ HasKey(files[c], CurrentFile(c).example_name)
        /\ Entry(files[c], CurrentFile(c).example_name).value.content
               = PlainFile(CurrentFile(c).options, 1)

\* a step that records a diagnostic writes the whole line and goes on
RecordedAndWritten(c) ==
    c \in DOMAIN spec /\ Len(writer'[c].errors) > Len(writer[c].errors) =>
        /\ DescriptionStep(c)
        /\ Appended(c, RenderedLine(Top(c).indent, DescribedLine(c)) \o "\n")
        /\ exc'[c] = "none"
        /\ pc'[c] = pc[c]

\* C3: diagnostics never abort or alter the output text: the step that
\* records a diagnostic writes the offending line in full and rendering goes
\* on, and the content stored for a file is the document with every
\* description line in full and every later line and option rendered, as it
\* would be had no line been flagged; the diagnostics are only in errors.
C3_DiagnosticsLeaveTextAlone ==
    /\ [](\A c \in DOMAIN spec : StoredInFull(c))
    /\ [][\A c \in Consumers : RecordedAndWritten(c)]_vars

\* C3 witness: a file was stored with two diagnostics recorded, the first of
\* them by a line that other lines and options follow.
C3_Witness ==
    \E c \in DOMAIN spec :
        /\ pc[c] = "exit"
        /\ Len(writer[c].errors) >= 2
        /\ Len(CurrentFile(c).options) >= 2
        /\ Entry(files[c], CurrentFile(c).example_name).value.content = writer[c].text

\* the names of files in the order first seen
RECURSIVE FirstSeen(_, _)
FirstSeen(fs, k) ==
    IF k > Len(fs) THEN << >>
    ELSE (IF \E j \in 1..(k - 1) : fs[j].example_name = fs[k].example_name
          THEN << >>
          ELSE << fs[k].example_name >>)
         \o FirstSeen(fs, k + 1)

\* the last file of fs that carries the name
LastNamed(fs, name) ==
    fs[CHOOSE k \in DOMAIN fs :
           /\ fs[k].example_name = name
           /\ \A j \in DOMAIN fs : fs[j].example_name = name => j <= k]

\* C8: a duplicate example_name is last-writer-wins: the mapping render()
\* returns has one entry per distinct example_name, in the order the names
\* were first seen, and the value of an entry is the (content, errors) of the
\* last file in input order that carries the name.
C8_LastWriterWins ==
    \A c \in DOMAIN spec :
        pc[c] = "returned" =>
            LET fs == spec[c].files
                keys == FirstSeen(fs, 1)
            IN  /\ Len(files[c]) = Len(keys)
                /\ \A k \in DOMAIN keys :
                      /\ files[c][k].key = keys[k]
                      /\ files[c][k].value = AloneResult(LastNamed(fs, keys[k]))

\* C8 witness: render() returned two entries for three files, the first and
\* the third of the same name and of different options.
C8_Witness ==
    \E c \in DOMAIN spec :
        /\ pc[c] = "returned"
        /\ Len(spec[c].files) = 3
        /\ spec[c].files[1].example_name = spec[c].files[3].example_name
        /\ spec[c].files[1].example_name # spec[c].files[2].example_name
        /\ spec[c].files[1].options # spec[c].files[3].options
        /\ Len(files[c]) = 2

\* the files consumer c has stored the result of
Stored(c) ==
    IF pc[c] = "start" THEN 0
    ELSE IF pc[c] = "exit" THEN fi[c]
    ELSE fi[c] - 1

\* C9: files are rendered in isolation: the result stored for a file is the
\* result of rendering that file alone (its own text, and its own
\* diagnostics in pre-order), whatever was rendered before it by the same
\* consumer and whatever another consumer is rendering meanwhile.
C9_FilesIsolated ==
    \A c \in DOMAIN spec :
        /\ pc[c] = "exit" =>
              Entry(files[c], CurrentFile(c).example_name).value = AloneResult(CurrentFile(c))
        /\ \A k \in DOMAIN files[c] :
              \E j \in 1..Stored(c) :
                  /\ spec[c].files[j].example_name = files[c][k].key
                  /\ files[c][k].value = AloneResult(spec[c].files[j])

\* C9 witness: two consumers have rendered a file each, one with a
\* diagnostic and one with none, the second finishing while the first was
\* between its file and its return.
C9_Witness ==
    /\ DOMAIN spec = Consumers
    /\ pc["c1"] = "exit"
    /\ pc["c2"] = "returned"
    /\ files["c1"] # << >>
    /\ files["c2"] # << >>
    /\ files["c1"][1].value.errors # << >>
    /\ files["c2"][1].value.errors = << >>

\* a step of consumer c that writes the header of a value option
HeaderStep(c) ==
    /\ c \in DOMAIN spec
    /\ stack[c] # << >>
    /\ Top(c).at = "header"
    /\ Len(stack'[c]) = Len(stack[c])
    /\ stack'[c][Len(stack[c])].at = "description"

\* a step of consumer c that writes one line of the example of a value option
ExampleStep(c) ==
    /\ c \in DOMAIN spec
    /\ stack[c] # << >>
    /\ Top(c).at = "example"
    /\ Len(stack'[c]) = Len(stack[c])
    /\ stack'[c][Len(stack[c])].i = Top(c).i + 1

\* the header of an option up to the word required or optional
HeaderStem(f) ==
    f.indent \o "## " \o f.option.name \o " - " \o value_type_string(f.option.value) \o " - "

\* the lines of the serialized example of the option of frame f
ExampleLines(f) ==
    splitlines(IF f.start_list
               THEN construct_yaml_list(f.option.name, Get(f.option.value, "example", None))
               ELSE construct_yaml_mapping(f.option.name,
                                           Get(f.option.value, "example", None)))

\* C4: a required value option has a header that ends with " - required",
\* with no default suffix, and every line of its example is written with the
\* indent alone (live YAML); an optional one has every line of its example
\* written with the indent and then the comment marker "# "; in the normal
\* and in the first-of-multiple form alike.
C4_RequiredLiveOptionalCommented ==
    [][\A c \in Consumers :
          /\ HeaderStep(c) /\ Top(c).option.required =>
                Appended(c, HeaderStem(Top(c)) \o "required" \o "\n")
          /\ ExampleStep(c) =>
                LET f == Top(c)
                    line == ExampleLines(f)[f.i]
                IN  IF f.option.required
                    THEN Appended(c, f.indent \o line \o "\n")
                    ELSE Appended(c, f.indent \o "# " \o line \o "\n")]_vars

\* C4 witness: the second line of the example of a required option in the
\* first-of-multiple form was written, live.
C4_Witness ==
    \E c \in DOMAIN spec :
        /\ stack[c] # << >>
        /\ Top(c).at = "example"
        /\ Top(c).start_list
        /\ Top(c).option.required
        /\ Top(c).i = 3
        /\ EndsWith(writer[c].text, "\n" \o Top(c).indent \o ExampleLines(Top(c))[2] \o "\n")

\* the text of the numbers the schemas hold
NumericText(example) ==
    CASE example = ExInt(8125) -> "8125"
      [] example = ExInt(10)   -> "10"
      [] example = ExFloat     -> "1.5"

\* the default suffix the header of an option is to have
ExpectedSuffix(option) ==
    IF option.required \/ "example" \notin DOMAIN option.value THEN ""
    ELSE LET example == option.value.example IN
         CASE example.kind = "str" ->
                  IF example.v = default_option_example(option.name)
                  THEN ""
                  ELSE " - default: " \o example.v
           [] example.kind = "bool" ->
                  IF example.v THEN " - default: true" ELSE " - default: false"
           [] example.kind \in { "int", "float" } -> " - default: " \o NumericText(example)
           [] OTHER -> ""

\* C10: the default suffix of the header of a value option: none for an
\* optional option whose string example is the name-derived default, the
\* example verbatim when it differs, true or false for a boolean, the numeric
\* text for an integer or a float, none for a mapping, a sequence or no
\* example, and none for a required option whatever its example.
C10_DefaultSuffix ==
    [][\A c \in Consumers :
          HeaderStep(c) =>
              Appended(c, HeaderStem(Top(c))
                          \o (IF Top(c).option.required THEN "required" ELSE "optional")
                          \o ExpectedSuffix(Top(c).option) \o "\n")]_vars

\* C10 witness: the header of an optional option whose string example is not
\* the name-derived default was written with the example as its default.
C10_Witness ==
    \E c \in DOMAIN spec :
        /\ stack[c] # << >>
        /\ "value" \in DOMAIN Top(c).option
        /\ Top(c).at = "description"
        /\ Top(c).i = 1
        /\ ~Top(c).option.required
        /\ "example" \in DOMAIN Top(c).option.value
        /\ Top(c).option.value.example.kind = "str"
        /\ Top(c).option.value.example.v # default_option_example(Top(c).option.name)
        /\ EndsWith(writer[c].text,
                    " - optional - default: " \o Top(c).option.value.example.v \o "\n")

\* a step of consumer c that enters a child of a section
ChildStep(c) ==
    /\ c \in DOMAIN spec
    /\ stack[c] # << >>
    /\ Top(c).at = "children"
    /\ Len(stack'[c]) = Len(stack[c]) + 1

\* a step of consumer c that serializes the example of a value option
SerializeStep(c) ==
    /\ c \in DOMAIN spec
    /\ stack[c] # << >>
    /\ "value" \in DOMAIN Top(c).option
    /\ Top(c).at = "description"
    /\ Len(stack'[c]) = Len(stack[c])
    /\ stack'[c][Len(stack[c])].at = "example"

\* how the children of a section are entered, marker being the text of the
\* standalone list-item marker
ChildPolicy(c, marker) ==
    /\ ChildStep(c) =>
          LET section == Top(c).option
              opt == section.options[Top(c).i]
              child == stack'[c][Len(stack'[c])]
          IN  /\ child.option = opt
              /\ IF Top(c).i = 1 /\ section.multiple
                 THEN IF opt.required
                      THEN child.start_list /\ Appended(c, "\n")
                      ELSE /\ ~child.start_list
                           /\ Appended(c, "\n" \o DropLast2(child.indent) \o marker \o "\n")
                 ELSE ~child.start_list /\ Appended(c, "\n")
    /\ SerializeStep(c) =>
          LET f == Top(c)
              example == Get(f.option.value, "example", None)
              yaml == stack'[c][Len(stack[c])].option_yaml
          IN  IF f.start_list
              THEN yaml = construct_yaml_list(f.option.name, example)
                   /\ SubSeq(yaml, 1, 2) = "- "
              ELSE yaml = construct_yaml_mapping(f.option.name, example)
    /\ c \in DOMAIN spec /\ stack[c] = << >> /\ stack'[c] # << >> =>
          ~stack'[c][1].start_list

\* C5 as stated: in a multiple section, a required first child is rendered
\* first-of-multiple, as a one-element sequence and with no marker line; an
\* optional first child is rendered normally after exactly one standalone
\* marker line "- " at the dedented indent; every other child, and every
\* child of a section that is not multiple, is rendered normally with no
\* marker line.
C5_MarkerDashSpace == [][\A c \in Consumers : ChildPolicy(c, "- ")]_vars

\* C5 amended: as C5, the standalone marker line being the dash alone, "-",
\* with no space after it.
C5_MarkerDash == [][\A c \in Consumers : ChildPolicy(c, "-")]_vars

\* C5 witness: the optional first child of a multiple section was entered
\* after the marker line.
C5_Witness ==
    \E c \in DOMAIN spec :
        /\ Len(stack[c]) >= 2
        /\ Top(c).at = "header"
        /\ ~Top(c).option.required
        /\ ~Top(c).start_list
        /\ stack[c][Len(stack[c]) - 1].at = "children"
        /\ stack[c][Len(stack[c]) - 1].i = 1
        /\ stack[c][Len(stack[c]) - 1].option.multiple
        /\ EndsWith(writer[c].text, ":\n\n" \o DropLast2(Top(c).indent) \o "-\n")

RECURSIVE Spaces(_)
Spaces(n) == IF n <= 0 THEN "" ELSE " " \o Spaces(n - 1)

\* The indentation of every call in progress and of the list lines, when a
\* nesting level is 4 spaces and one level less takes reduction spaces off
\* the indent of the children: frame k is k - 1 levels deep.
IndentPolicy(c, reduction) ==
    /\ \A k \in DOMAIN stack[c] :
          LET f == stack[c][k] IN
          /\ f.indent = Spaces(4 * (k - 1)
                               - (IF f.start_list /\ f.at = "example" THEN reduction ELSE 0))
          /\ k > 1 /\ f.at = "header" /\ ~f.option.required
                /\ stack[c][k - 1].i = 1 /\ stack[c][k - 1].option.multiple
             => EndsWith(writer[c].text, "\n" \o Spaces(4 * (k - 1) - reduction) \o "-\n")
          /\ f.at = "return" /\ f.option.options = << >> /\ f.option.multiple
             => EndsWith(writer[c].text,
                         Spaces(4 * (k - 1)) \o f.option.name \o ":\n\n"
                             \o Spaces(4 * k - reduction) \o "- {}\n")

\* C6 as stated: every nesting level adds one step of 4 spaces to the indent
\* of the children, and the serialized first-of-multiple fragment, the
\* standalone marker line and the empty-list placeholder are each written one
\* whole step of 4 spaces less than the indent of the children.
C6_ReducedByFour == \A c \in DOMAIN spec : IndentPolicy(c, 4)

\* C6 amended: every nesting level adds one step of 4 spaces, and each of the
\* three adjustments takes 2 spaces (half a step, the width of "- ") off the
\* indent of the children.
C6_ReducedByTwo == \A c \in DOMAIN spec : IndentPolicy(c, 2)

\* C6 witness: two sections deep, the example of a first-of-multiple option
\* is being written at 8 - 2 = 6 spaces.
C6_Witness ==
    \E c \in DOMAIN spec :
        /\ Len(stack[c]) = 3
        /\ Top(c).start_list
        /\ Top(c).at = "example"
        /\ Top(c).i = 2
        /\ EndsWith(writer[c].text, "\n      - " \o Top(c).option.name \o ": 8125\n")

\* the with statement of the current file was entered and not yet left
ScopeOpen(c) == pc[c] \in { "for_option", "write_option", "after_option", "exit", "unwind" }

\* the with statement of a file was left
ScopeEnded(c) ==
    \/ pc[c] = "raised"
    \/ pc[c] \in { "for_file", "returned" } /\ fi[c] > 1

\* the store is finalized on every exit path and written only while open
StoreLifecycle(c) ==
    /\ ScopeEnded(c) => writer[c].closed
    /\ ScopeOpen(c) => ~writer[c].closed
    /\ exc[c] # "ValueError"

\* C7 as stated: the store of a file is closed on every exit path of its
\* scope, a raise included; all writes happen while the scope is open; and
\* contents() has been read only after the scope has ended.
C7_ReadAfterScope ==
    \A c \in DOMAIN spec :
        /\ StoreLifecycle(c)
        /\ pc[c] = "exit" => writer[c].closed

\* C7 amended: the store of a file is closed on every exit path of its
\* scope, a raise included; all writes happen while the scope is open; and
\* contents() is read inside the scope, after the last write and before the
\* store is closed, which is when the read is valid: no read or write ever
\* meets a closed store.
C7_ReadInsideScope ==
    \A c \in DOMAIN spec :
        /\ StoreLifecycle(c)
        /\ pc[c] = "exit" =>
              /\ ~writer[c].closed
              /\ Entry(files[c], CurrentFile(c).example_name).value.content = writer[c].text

\* C7 witness: rendering an option raised after text was written, and the
\* store was closed on the way out.
C7_Witness ==
    \E c \in DOMAIN spec :
        /\ pc[c] = "raised"
        /\ exc[c] = "KeyError"
        /\ writer[c].text # ""
        /\ writer[c].closed

(***************************************************************************)
(* Leader-change detection of the Vault check                              *)
(***************************************************************************)

\* a step that ends the run of check_leader_v1 of check v
RunEnds(v) == leader_pc[v] # "idle" /\ leader_pc'[v] = "idle"

\* the run ends because the API call raised
ApiRaised(v) == leader_pc[v] = "access_api" /\ raised'[v] # "none"

\* the response of the run carries errors
ReportedErrors(v) ==
    /\ "errors" \in DOMAIN leader_data[v]
    /\ leader_data[v].errors.v # << >>

\* the leader_address of the response of the run, "" when it has none
ReportedLeader(v) ==
    IF "leader_address" \in DOMAIN leader_data[v] /\ leader_data[v].leader_address.kind = "str"
    THEN leader_data[v].leader_address.v
    ELSE ""

\* the run observes a non-empty leader with detection enabled
ObservesLeader(v) ==
    /\ RunEnds(v)
    /\ ~ApiRaised(v)
    /\ _detect_leader[v]
    /\ ~ReportedErrors(v)
    /\ ReportedLeader(v) # ""

\* exactly one vault.leader_change event is added to those submitted before
OneEventMore(v) ==
    /\ Len(events'[v]) = Len(events[v]) + 1
    /\ SubSeq(events'[v], 1, Len(events[v])) = events[v]
    /\ events'[v][Len(events'[v])].event_type = "vault.leader_change"

LeaderChangePolicy(v) ==
    IF RunEnds(v)
    THEN /\ IF /\ ObservesLeader(v)
               /\ _previous_leader[v] # None
               /\ _previous_leader[v] # ExStr(ReportedLeader(v))
            THEN OneEventMore(v)
            ELSE events'[v] = events[v]
         /\ IF ObservesLeader(v)
            THEN _previous_leader'[v] = ExStr(ReportedLeader(v))
            ELSE _previous_leader'[v] = _previous_leader[v]
    ELSE /\ events'[v] = events[v]
         /\ _previous_leader'[v] = _previous_leader[v]

\* while no leader has been recorded no event has been emitted, and the first
\* run that observes a leader finds none recorded
NoLeaderNoEvent(v) == _previous_leader[v] = None => events[v] = << >>

\* C11: over any sequence of check_leader_v1 runs, a run emits one
\* vault.leader_change event exactly when detection is enabled, the response
\* has no errors, its leader_address is non-empty, a previous leader is
\* recorded and the address differs from it; no event exists before a leader
\* is recorded, so the first run observing a leader emits none; a run that
\* observes a non-empty leader with detection enabled leaves _previous_leader
\* equal to it, and every other run (errors, empty address, detection
\* disabled, the API call raising) leaves _previous_leader unchanged.
C11_LeaderChangeDetection ==
    /\ [](\A v \in DOMAIN instance : NoLeaderNoEvent(v))
    /\ [][\A v \in DOMAIN instance : LeaderChangePolicy(v)]_vars

\* a leader change was reported, and a later run whose API call raised left
\* the recorded leader and the events alone
C11_Witness ==
    \E v \in DOMAIN instance :
        /\ leader_pc[v] = "idle"
        /\ raised[v] = "ApiUnreachable"
        /\ _previous_leader[v] \in { ExStr(l) : l \in LeaderAddresses }
        /\ Len(events[v]) = 1
        /\ events[v][1].msg_text =
             "Leader changed from 'https://a:8200' to 'https://b:8200'."
        /\ _previous_leader[v] = ExStr("https://b:8200")
====
